---- MODULE Spec2Model ----
(***************************************************************************)
(* Model of carris_gtfs_saver.py: one run of main() downloads the GTFS     *)
(* archive, hashes it, compares the hash with gtfs/hash.txt in the bucket  *)
(* and, when they differ, uploads the archive under a key that             *)
(* generate_unique_s3_key found free and then rewrites gtfs/hash.txt.      *)
(*                                                                         *)
(* Strings that the code splits and joins (file names, S3 keys) are        *)
(* sequences of tokens: the separators "/", "." and "_" are tokens of      *)
(* their own and every other token is a word holding none of them, so two  *)
(* keys are the same string exactly when they are the same sequence.       *)
(* Object and file contents are sequences of byte values (0..255); text    *)
(* (str) is a sequence of one-character strings.                           *)
(***************************************************************************)
EXTENDS Integers, Sequences, FiniteSets, TLC

(* ------------------------------ bounds --------------------------------- *)
\* runs of main() started over one behaviour
MaxRuns == 3
\* the wall clock is read in ticks 0..MaxClock
MaxClock == 2
\* clock ticks per second: strftime("%Y%m%d_%H%M%S") drops the sub-second part
TicksPerSecond == 2
\* largest counter suffix pre-existing in the store of the allocator-only model
MaxCounter == 2

\* the runs that may be alive at once (two cron jobs / containers)
Procs == {1, 2}

(* --------------------------- configuration ----------------------------- *)
LOCAL_GTFS_FILE == <<"GTFS", "_", "Carris", ".", "zip">>
S3_PREFIX == <<"gtfs", "/">>
HashFileName == <<"hash", ".", "txt">>

\* the environment main() validates: which settings are non-empty
Configs == [bucket : BOOLEAN, endpoint : BOOLEAN, access : BOOLEAN,
            secret : BOOLEAN, url : BOOLEAN]

(* ------------------------------ bytes/text ----------------------------- *)
\* the feed bodies the source URL serves
Payloads == { <<97>>, <<98, 255>> }

\* what a file on disk can hold: a body or what was written of it before
\* the stream broke
Prefixes(b) == { SubSeq(b, 1, n) : n \in 0..Len(b) }
Blobs == UNION { Prefixes(b) : b \in Payloads }

\* hashlib.sha256(...).hexdigest(): a fixed-length lowercase hex string,
\* different for different contents
calculate_file_hash_digest(b) ==
    CASE b = <<>>        -> <<"a", "a">>
      [] b = <<97>>      -> <<"a", "b">>
      [] b = <<98>>      -> <<"b", "a">>
      [] b = <<98, 255>> -> <<"b", "b">>

\* the characters of the model and their UTF-8 (ASCII) byte
CharByte == [c \in {"a", "b", "\n", " "} |->
               CASE c = "a" -> 97 [] c = "b" -> 98 [] c = "\n" -> 10 [] c = " " -> 32]
Whitespace == {"\n", " "}

\* str.encode('utf-8')
Encode(t) == [i \in 1..Len(t) |-> CharByte[t[i]]]

\* bytes.decode('utf-8') succeeds only on bytes that are UTF-8: here ASCII
Decodable(b) == \A i \in 1..Len(b) : \E c \in DOMAIN CharByte : CharByte[c] = b[i]
Decode(b) == [i \in 1..Len(b) |-> CHOOSE c \in DOMAIN CharByte : CharByte[c] = b[i]]

\* str.strip(): drop leading and trailing whitespace
Strip(t) ==
    LET keep == { i \in 1..Len(t) : t[i] \notin Whitespace }
    IN  IF keep = {} THEN <<>>
        ELSE LET lo == CHOOSE i \in keep : \A j \in keep : i <= j
                 hi == CHOOSE i \in keep : \A j \in keep : j <= i
             IN  SubSeq(t, lo, hi)

\* Python's None / a value, for remote_hash
None == {}
Some(x) == {x}

(* -------------------------------- keys --------------------------------- *)
\* s.rsplit(sep, 1): <<s>> when sep is not in s, else the part before the
\* last sep and the part after it
RSplit(s, sep) ==
    LET at == { i \in 1..Len(s) : s[i] = sep }
    IN  IF at = {} THEN <<s>>
        ELSE LET i == CHOOSE k \in at : \A j \in at : j <= k
             IN  <<SubSeq(s, 1, i - 1), SubSeq(s, i + 1, Len(s))>>

\* datetime.now().strftime("%Y%m%d_%H%M%S") at clock tick now
Strftime(now) == <<"20240101", "_", ToString(120000 + (now \div TicksPerSecond))>>

\* the key generate_unique_s3_key builds from original_key: the timestamp
\* (and "_<counter>" when counter > 0) goes before the file extension
NewKey(original_key, timestamp, counter) ==
    LET parts      == RSplit(original_key, "/")
        prefix     == IF Len(parts) = 2 THEN parts[1] ELSE <<>>
        filename   == IF Len(parts) = 2 THEN parts[2] ELSE original_key
        name_parts == RSplit(filename, ".")
        suffix     == IF counter > 0 THEN <<"_", ToString(counter)>> ELSE <<>>
        new_filename ==
            IF Len(name_parts) = 2
            THEN name_parts[1] \o <<"_">> \o timestamp \o suffix \o <<".">> \o name_parts[2]
            ELSE filename \o <<"_">> \o timestamp \o suffix
    IN  IF prefix # <<>> THEN prefix \o <<"/">> \o new_filename ELSE new_filename

(* ------------------------------- inputs -------------------------------- *)
Clock == 0..MaxClock

\* the file name the server's Content-Disposition header yields through
\* re.findall(r'filename="?([^"]+)"?', ...): <<>> when there is no header,
\* no "filename=" in it or no match
ServerFilenames == { <<>>, HashFileName }

\* one HTTP exchange: ok is requests.get and raise_for_status succeeding,
\* written is how many body bytes iter_content delivered before it raised
\* (all of them when the stream did not break)
Responses ==
    { r \in UNION { [ok : BOOLEAN, cd : ServerFilenames, body : {b}, written : 0..Len(b)] :
                      b \in Payloads } : ~r.ok => r.written = 0 }

(* -------------------------------- state -------------------------------- *)
VARIABLES
    store,        \* the bucket: key -> object bytes, for the keys that exist
    fs,           \* the working directory: file name -> bytes
    loc,          \* per run: position in main() and main's local variables
    runs,         \* runs of main() started so far
    hist,         \* per run: what the run has done so far (history)
    writes,       \* every successful store write, in order (history)
    last_publish, \* the last upload whose hash was saved as well (history)
    last_run      \* what the run that ended last did (history)

vars == <<store, fs, loc, runs, hist, writes, last_publish, last_run>>

s3_hash_key == S3_PREFIX \o HashFileName
s3_gtfs_key(local_file) == S3_PREFIX \o local_file

\* dict-like update of the bucket or the directory
Put(f, k, v) == [x \in (DOMAIN f) \cup {k} |-> IF x = k THEN v ELSE f[x]]
Remove(f, k) == [x \in (DOMAIN f) \ {k} |-> f[x]]

NoLocals == [pc |-> "idle", local_file |-> <<>>, local_hash |-> <<>>,
             remote_hash |-> None, original_key |-> <<>>, timestamp |-> <<>>,
             counter |-> 0, new_key |-> <<>>, exit_code |-> 0]

NoRun == [published |-> FALSE, data |-> <<>>, uploaded |-> None]

NoHistory == [run_id |-> 0, ops |-> <<>>, store_at_start |-> <<>>,
              fetched |-> None, fail_step |-> "", uploaded |-> None,
              saved |-> FALSE, rm_failed |-> FALSE, opened |-> None,
              reply |-> "", config_error |-> "", prev |-> NoRun]

Init ==
    /\ store = <<>>
    /\ fs = <<>>
    /\ loc = [p \in Procs |-> NoLocals]
    /\ runs = 0
    /\ hist = [p \in Procs |-> NoHistory]
    /\ writes = <<>>
    /\ last_publish = None
    /\ last_run = NoRun

Terminal == {"idle", "done", "failed"}

\* history: run p calls the external operation op, and op returns
Called(p, op) == [hist EXCEPT ![p].ops = Append(@, op)]
\* history: run p calls the external operation op, and op raises
CalledRaised(p, op) == [hist EXCEPT ![p].ops = Append(@, op), ![p].fail_step = op]

\* history: what run p, now ending, did
Outcome(p) ==
    IF hist[p].uploaded # None /\ hist[p].saved
    THEN [published |-> TRUE, data |-> (CHOOSE u \in hist[p].uploaded : TRUE).data,
          uploaded |-> hist[p].uploaded]
    ELSE [NoRun EXCEPT !.uploaded = hist[p].uploaded]

\* history: os.remove failed in the cleanup of run p
Cleaned(p, rm_ok) ==
    [hist EXCEPT ![p].rm_failed = (loc[p].local_file \in DOMAIN fs /\ ~rm_ok)]

\* os.path.exists + os.remove; an OSError of os.remove is logged and swallowed
cleanup_local_file(dir, file_path, rm_ok) ==
    IF file_path \in DOMAIN dir /\ rm_ok THEN Remove(dir, file_path) ELSE dir

(* ------------------------------- main() -------------------------------- *)
\* the runs come one after the other from a single scheduler slot: no other
\* process was ever started
NoOtherRun(p) == \A q \in Procs \ {p} : loc[q].pc = "idle"

\* the checks at the top of main(), in their order: the setting whose check
\* fails first, "" when all pass
ConfigError(config) ==
    IF ~config.bucket THEN "S3_BUCKET_NAME"
    ELSE IF config.endpoint /\ ~(config.access /\ config.secret) THEN "S3_ENDPOINT_URL"
    ELSE IF ~config.url THEN "GTFS_URL"
    ELSE ""

\* main's validation as it would be without the check of the credentials
\* that a custom endpoint needs
main_validate_no_credentials_check(p) ==
    /\ loc[p].pc \in Terminal
    /\ runs < MaxRuns
    /\ runs' = runs + 1
    /\ \E config \in Configs :
         /\ loc' = [loc EXCEPT ![p] =
                      IF config.bucket /\ config.url
                      THEN [NoLocals EXCEPT !.pc = "download"]
                      ELSE [NoLocals EXCEPT !.pc = "failed", !.exit_code = 1]]
         /\ hist' = [hist EXCEPT ![p] =
                       [NoHistory EXCEPT !.run_id = runs + 1, !.store_at_start = store,
                                         !.config_error = ConfigError(config),
                                         !.prev = last_run]]
    /\ UNCHANGED <<store, fs, writes, last_publish, last_run>>

\* a process starts and main() validates the environment
main_validate(p) ==
    /\ loc[p].pc \in Terminal
    /\ runs < MaxRuns
    /\ runs' = runs + 1
    /\ \E config \in Configs :
         /\ loc' = [loc EXCEPT ![p] =
                      IF ConfigError(config) = ""
                      THEN [NoLocals EXCEPT !.pc = "download"]
                      ELSE [NoLocals EXCEPT !.pc = "failed", !.exit_code = 1]]
         /\ hist' = [hist EXCEPT ![p] =
                       [NoHistory EXCEPT !.run_id = runs + 1, !.store_at_start = store,
                                         !.config_error = ConfigError(config),
                                         !.prev = last_run]]
    /\ UNCHANGED <<store, fs, writes, last_publish, last_run>>

\* Step 1: local_file = download_gtfs_file(GTFS_URL, LOCAL_GTFS_FILE)
download_gtfs_file(p) ==
    /\ loc[p].pc = "download"
    /\ \E r \in Responses :
         LET filename == IF r.cd # <<>> THEN r.cd ELSE LOCAL_GTFS_FILE
         IN  \/ \* requests.get or raise_for_status raises: no file is opened
                /\ ~r.ok
                /\ fs' = fs
                /\ loc' = [loc EXCEPT ![p].pc = "except"]
                /\ hist' = CalledRaised(p, "fetch")
             \/ \* the stream breaks after the file was opened and partly written
                /\ r.ok /\ r.written < Len(r.body)
                /\ fs' = Put(fs, filename, SubSeq(r.body, 1, r.written))
                /\ loc' = [loc EXCEPT ![p].pc = "except"]
                /\ hist' = [CalledRaised(p, "fetch") EXCEPT ![p].opened = Some(filename)]
             \/ \* the whole body is written and the file name returned
                /\ r.ok /\ r.written = Len(r.body)
                /\ fs' = Put(fs, filename, r.body)
                /\ loc' = [loc EXCEPT ![p].pc = "hash", ![p].local_file = filename]
                /\ hist' = [Called(p, "fetch") EXCEPT ![p].fetched = Some(r.body),
                                                      ![p].opened = Some(filename)]
    /\ UNCHANGED <<store, runs, writes, last_publish, last_run>>

\* Step 2: local_hash = calculate_file_hash(local_file)
calculate_file_hash(p) ==
    /\ loc[p].pc = "hash"
    /\ \E read_ok \in BOOLEAN :
         IF read_ok /\ loc[p].local_file \in DOMAIN fs
         THEN /\ loc' = [loc EXCEPT ![p].pc = "client",
                           ![p].local_hash = calculate_file_hash_digest(fs[loc[p].local_file])]
              /\ hist' = hist
         ELSE /\ loc' = [loc EXCEPT ![p].pc = "except"]
              /\ hist' = [hist EXCEPT ![p].fail_step = "hash"]
    /\ UNCHANGED <<store, fs, runs, writes, last_publish, last_run>>

\* Step 3: s3_client = get_s3_client()
get_s3_client(p) ==
    /\ loc[p].pc = "client"
    /\ \E client_ok \in BOOLEAN :
         IF client_ok
         THEN /\ loc' = [loc EXCEPT ![p].pc = "get_remote"]
              /\ hist' = hist
         ELSE /\ loc' = [loc EXCEPT ![p].pc = "except"]
              /\ hist' = [hist EXCEPT ![p].fail_step = "client"]
    /\ UNCHANGED <<store, fs, runs, writes, last_publish, last_run>>

\* get_remote_hash as it would be without .strip()
get_remote_hash_no_strip(p) ==
    /\ loc[p].pc = "get_remote"
    /\ \E get_ok \in BOOLEAN :
         IF ~get_ok
         THEN /\ loc' = [loc EXCEPT ![p].pc = "except"]
              /\ hist' = [CalledRaised(p, "get_hash") EXCEPT ![p].reply = "error"]
         ELSE IF s3_hash_key \notin DOMAIN store
         THEN /\ loc' = [loc EXCEPT ![p].pc = "compare", ![p].remote_hash = None]
              /\ hist' = [Called(p, "get_hash") EXCEPT ![p].reply = "NoSuchKey"]
         ELSE IF ~Decodable(store[s3_hash_key])
         THEN /\ loc' = [loc EXCEPT ![p].pc = "except"]
              /\ hist' = [CalledRaised(p, "get_hash") EXCEPT ![p].reply = "object"]
         ELSE /\ loc' = [loc EXCEPT ![p].pc = "compare",
                           ![p].remote_hash = Some(Decode(store[s3_hash_key]))]
              /\ hist' = [Called(p, "get_hash") EXCEPT ![p].reply = "object"]
    /\ UNCHANGED <<store, fs, runs, writes, last_publish, last_run>>

\* get_remote_hash as it would be if every error of the read, not only
\* NoSuchKey, were answered with None
get_remote_hash_any_error_is_none(p) ==
    /\ loc[p].pc = "get_remote"
    /\ \E get_ok \in BOOLEAN :
         IF ~get_ok
         THEN /\ loc' = [loc EXCEPT ![p].pc = "compare", ![p].remote_hash = None]
              /\ hist' = [CalledRaised(p, "get_hash") EXCEPT ![p].reply = "error"]
         ELSE IF s3_hash_key \notin DOMAIN store
         THEN /\ loc' = [loc EXCEPT ![p].pc = "compare", ![p].remote_hash = None]
              /\ hist' = [Called(p, "get_hash") EXCEPT ![p].reply = "NoSuchKey"]
         ELSE IF ~Decodable(store[s3_hash_key])
         THEN /\ loc' = [loc EXCEPT ![p].pc = "except"]
              /\ hist' = [CalledRaised(p, "get_hash") EXCEPT ![p].reply = "object"]
         ELSE /\ loc' = [loc EXCEPT ![p].pc = "compare",
                           ![p].remote_hash = Some(Strip(Decode(store[s3_hash_key])))]
              /\ hist' = [Called(p, "get_hash") EXCEPT ![p].reply = "object"]
    /\ UNCHANGED <<store, fs, runs, writes, last_publish, last_run>>

\* Step 4: remote_hash = get_remote_hash(s3_client, S3_BUCKET_NAME, s3_hash_key)
get_remote_hash(p) ==
    /\ loc[p].pc = "get_remote"
    /\ \E get_ok \in BOOLEAN :
         IF ~get_ok
         THEN \* a ClientError other than NoSuchKey, or any other exception
              /\ loc' = [loc EXCEPT ![p].pc = "except"]
              /\ hist' = [CalledRaised(p, "get_hash") EXCEPT ![p].reply = "error"]
         ELSE IF s3_hash_key \notin DOMAIN store
         THEN \* NoSuchKey: return None
              /\ loc' = [loc EXCEPT ![p].pc = "compare", ![p].remote_hash = None]
              /\ hist' = [Called(p, "get_hash") EXCEPT ![p].reply = "NoSuchKey"]
         ELSE IF ~Decodable(store[s3_hash_key])
         THEN \* UnicodeDecodeError from .decode('utf-8')
              /\ loc' = [loc EXCEPT ![p].pc = "except"]
              /\ hist' = [CalledRaised(p, "get_hash") EXCEPT ![p].reply = "object"]
         ELSE /\ loc' = [loc EXCEPT ![p].pc = "compare",
                           ![p].remote_hash = Some(Strip(Decode(store[s3_hash_key])))]
              /\ hist' = [Called(p, "get_hash") EXCEPT ![p].reply = "object"]
    /\ UNCHANGED <<store, fs, runs, writes, last_publish, last_run>>

\* main's Step 5 as it would be without the return after the cleanup
main_compare_no_return(p) ==
    /\ loc[p].pc = "compare"
    /\ IF Some(loc[p].local_hash) = loc[p].remote_hash
       THEN \E rm_ok \in BOOLEAN :
              /\ fs' = cleanup_local_file(fs, loc[p].local_file, rm_ok)
              /\ hist' = Cleaned(p, rm_ok)
       ELSE /\ fs' = fs
            /\ hist' = hist
    /\ loc' = [loc EXCEPT ![p].pc = "alloc_original",
                 ![p].original_key = s3_gtfs_key(loc[p].local_file)]
    /\ UNCHANGED <<store, runs, writes, last_publish, last_run>>

\* main's Step 5 as it would be if a missing remote hash counted as "no change"
main_compare_none_skips(p) ==
    /\ loc[p].pc = "compare"
    /\ IF loc[p].remote_hash = None \/ Some(loc[p].local_hash) = loc[p].remote_hash
       THEN /\ \E rm_ok \in BOOLEAN :
                 /\ fs' = cleanup_local_file(fs, loc[p].local_file, rm_ok)
                 /\ hist' = Cleaned(p, rm_ok)
            /\ loc' = [loc EXCEPT ![p].pc = "done", ![p].exit_code = 0]
            /\ last_run' = Outcome(p)
       ELSE /\ fs' = fs
            /\ hist' = hist
            /\ loc' = [loc EXCEPT ![p].pc = "alloc_original",
                         ![p].original_key = s3_gtfs_key(loc[p].local_file)]
            /\ last_run' = last_run
    /\ UNCHANGED <<store, runs, writes, last_publish>>

\* Step 5: if local_hash == remote_hash: cleanup, return; else go on to
\* generate_unique_s3_key(s3_client, S3_BUCKET_NAME, s3_gtfs_key)
main_compare(p) ==
    /\ loc[p].pc = "compare"
    /\ IF Some(loc[p].local_hash) = loc[p].remote_hash
       THEN /\ \E rm_ok \in BOOLEAN :
                 /\ fs' = cleanup_local_file(fs, loc[p].local_file, rm_ok)
                 /\ hist' = Cleaned(p, rm_ok)
            /\ loc' = [loc EXCEPT ![p].pc = "done", ![p].exit_code = 0]
            /\ last_run' = Outcome(p)
       ELSE /\ fs' = fs
            /\ hist' = hist
            /\ loc' = [loc EXCEPT ![p].pc = "alloc_original",
                         ![p].original_key = s3_gtfs_key(loc[p].local_file)]
            /\ last_run' = last_run
    /\ UNCHANGED <<store, runs, writes, last_publish>>

(* ----------------------- generate_unique_s3_key ------------------------ *)
\* the allocator as it would be if it put the timestamp into every key,
\* free or not
generate_unique_s3_key_original_always_timestamps(p) ==
    /\ loc[p].pc = "alloc_original"
    /\ \E head_ok \in BOOLEAN :
         IF ~head_ok
         THEN /\ loc' = [loc EXCEPT ![p].pc = "except"]
              /\ hist' = CalledRaised(p, "head")
         ELSE /\ \E now \in Clock :
                   loc' = [loc EXCEPT ![p].pc = "alloc_timestamp",
                             ![p].timestamp = Strftime(now),
                             ![p].new_key = NewKey(loc[p].original_key, Strftime(now), 0)]
              /\ hist' = Called(p, "head")
    /\ UNCHANGED <<store, fs, runs, writes, last_publish, last_run>>

\* if not check_s3_file_exists(original_key): return original_key;
\* otherwise read the clock and build the timestamped key
generate_unique_s3_key_original(p) ==
    /\ loc[p].pc = "alloc_original"
    /\ \E head_ok \in BOOLEAN :
         IF ~head_ok
         THEN \* head_object fails with something other than 404
              /\ loc' = [loc EXCEPT ![p].pc = "except"]
              /\ hist' = CalledRaised(p, "head")
         ELSE IF loc[p].original_key \notin DOMAIN store
         THEN /\ loc' = [loc EXCEPT ![p].pc = "upload", ![p].new_key = loc[p].original_key]
              /\ hist' = Called(p, "head")
         ELSE /\ \E now \in Clock :
                   loc' = [loc EXCEPT ![p].pc = "alloc_timestamp",
                             ![p].timestamp = Strftime(now),
                             ![p].new_key = NewKey(loc[p].original_key, Strftime(now), 0)]
              /\ hist' = Called(p, "head")
    /\ UNCHANGED <<store, fs, runs, writes, last_publish, last_run>>

\* the allocator as it would be if it trusted the timestamped key without
\* looking it up
generate_unique_s3_key_timestamp_unchecked(p) ==
    /\ loc[p].pc = "alloc_timestamp"
    /\ loc' = [loc EXCEPT ![p].pc = "upload"]
    /\ UNCHANGED <<store, fs, runs, hist, writes, last_publish, last_run>>

\* if check_s3_file_exists(new_key): counter = 1 and enter the loop;
\* otherwise return the timestamped key
generate_unique_s3_key_timestamp(p) ==
    /\ loc[p].pc = "alloc_timestamp"
    /\ \E head_ok \in BOOLEAN :
         IF ~head_ok
         THEN /\ loc' = [loc EXCEPT ![p].pc = "except"]
              /\ hist' = CalledRaised(p, "head")
         ELSE IF loc[p].new_key \notin DOMAIN store
         THEN /\ loc' = [loc EXCEPT ![p].pc = "upload"]
              /\ hist' = Called(p, "head")
         ELSE /\ loc' = [loc EXCEPT ![p].pc = "alloc_counter", ![p].counter = 1,
                           ![p].new_key = NewKey(loc[p].original_key, loc[p].timestamp, 1)]
              /\ hist' = Called(p, "head")
    /\ UNCHANGED <<store, fs, runs, writes, last_publish, last_run>>

\* the counter loop as it would be if the key were built once before the
\* loop and only the counter advanced inside it
generate_unique_s3_key_counter_same_key(p) ==
    /\ loc[p].pc = "alloc_counter"
    /\ \E head_ok \in BOOLEAN :
         IF ~head_ok
         THEN /\ loc' = [loc EXCEPT ![p].pc = "except"]
              /\ hist' = CalledRaised(p, "head")
         ELSE IF loc[p].new_key \notin DOMAIN store
         THEN /\ loc' = [loc EXCEPT ![p].pc = "upload"]
              /\ hist' = Called(p, "head")
         ELSE /\ loc' = [loc EXCEPT ![p].counter = @ + 1]
              /\ hist' = Called(p, "head")
    /\ UNCHANGED <<store, fs, runs, writes, last_publish, last_run>>

\* while True: break when the key with the counter is free, else counter += 1
generate_unique_s3_key_counter(p) ==
    /\ loc[p].pc = "alloc_counter"
    /\ \E head_ok \in BOOLEAN :
         IF ~head_ok
         THEN /\ loc' = [loc EXCEPT ![p].pc = "except"]
              /\ hist' = CalledRaised(p, "head")
         ELSE IF loc[p].new_key \notin DOMAIN store
         THEN /\ loc' = [loc EXCEPT ![p].pc = "upload"]
              /\ hist' = Called(p, "head")
         ELSE /\ loc' = [loc EXCEPT ![p].counter = @ + 1,
                           ![p].new_key = NewKey(loc[p].original_key, loc[p].timestamp,
                                                 loc[p].counter + 1)]
              /\ hist' = Called(p, "head")
    /\ UNCHANGED <<store, fs, runs, writes, last_publish, last_run>>

(* -------------------------- publish and record ------------------------- *)
\* upload_to_s3 as it would be if it logged the error and returned instead
\* of raising
upload_to_s3_swallows_error(p) ==
    /\ loc[p].pc = "upload"
    /\ \E put_ok \in BOOLEAN :
         IF put_ok /\ loc[p].local_file \in DOMAIN fs
         THEN LET data == fs[loc[p].local_file]
              IN  /\ store' = Put(store, loc[p].new_key, data)
                  /\ loc' = [loc EXCEPT ![p].pc = "save_hash"]
                  /\ hist' = [Called(p, "upload") EXCEPT
                                ![p].uploaded = Some([key |-> loc[p].new_key, data |-> data])]
                  /\ writes' = Append(writes, [run |-> hist[p].run_id, kind |-> "artifact",
                                               key |-> loc[p].new_key])
         ELSE /\ store' = store
              /\ loc' = [loc EXCEPT ![p].pc = "save_hash"]
              /\ hist' = CalledRaised(p, "upload")
              /\ writes' = writes
    /\ UNCHANGED <<fs, runs, last_publish, last_run>>

\* upload_to_s3 as it would be if it tried again after a failed upload
upload_to_s3_retries(p) ==
    /\ loc[p].pc = "upload"
    /\ \E put_ok \in BOOLEAN :
         IF put_ok /\ loc[p].local_file \in DOMAIN fs
         THEN LET data == fs[loc[p].local_file]
              IN  /\ store' = Put(store, loc[p].new_key, data)
                  /\ loc' = [loc EXCEPT ![p].pc = "save_hash"]
                  /\ hist' = [Called(p, "upload") EXCEPT
                                ![p].uploaded = Some([key |-> loc[p].new_key, data |-> data])]
                  /\ writes' = Append(writes, [run |-> hist[p].run_id, kind |-> "artifact",
                                               key |-> loc[p].new_key])
         ELSE /\ store' = store
              /\ loc' = loc
              /\ hist' = Called(p, "upload")
              /\ writes' = writes
    /\ UNCHANGED <<fs, runs, last_publish, last_run>>

\* Step 7: upload_to_s3(s3_client, S3_BUCKET_NAME, local_file, final_s3_key)
upload_to_s3(p) ==
    /\ loc[p].pc = "upload"
    /\ \E put_ok \in BOOLEAN :
         IF put_ok /\ loc[p].local_file \in DOMAIN fs
         THEN LET data == fs[loc[p].local_file]
              IN  /\ store' = Put(store, loc[p].new_key, data)
                  /\ loc' = [loc EXCEPT ![p].pc = "save_hash"]
                  /\ hist' = [Called(p, "upload") EXCEPT
                                ![p].uploaded = Some([key |-> loc[p].new_key, data |-> data])]
                  /\ writes' = Append(writes, [run |-> hist[p].run_id, kind |-> "artifact",
                                               key |-> loc[p].new_key])
         ELSE /\ store' = store
              /\ loc' = [loc EXCEPT ![p].pc = "except"]
              /\ hist' = CalledRaised(p, "upload")
              /\ writes' = writes
    /\ UNCHANGED <<fs, runs, last_publish, last_run>>

\* save_hash_to_s3 as it would be if it reported success without storing
\* the new hash
save_hash_to_s3_not_stored(p) ==
    /\ loc[p].pc = "save_hash"
    /\ \E put_ok \in BOOLEAN :
         IF put_ok
         THEN /\ loc' = [loc EXCEPT ![p].pc = "cleanup"]
              /\ hist' = [Called(p, "put_hash") EXCEPT ![p].saved = TRUE]
              /\ last_publish' = hist[p].uploaded
         ELSE /\ loc' = [loc EXCEPT ![p].pc = "except"]
              /\ hist' = CalledRaised(p, "put_hash")
              /\ last_publish' = last_publish
    /\ UNCHANGED <<store, fs, runs, writes, last_run>>

\* Step 8: save_hash_to_s3(s3_client, S3_BUCKET_NAME, s3_hash_key, local_hash)
save_hash_to_s3(p) ==
    /\ loc[p].pc = "save_hash"
    /\ \E put_ok \in BOOLEAN :
         IF put_ok
         THEN /\ store' = Put(store, s3_hash_key, Encode(loc[p].local_hash))
              /\ loc' = [loc EXCEPT ![p].pc = "cleanup"]
              /\ hist' = [Called(p, "put_hash") EXCEPT ![p].saved = TRUE]
              /\ writes' = Append(writes, [run |-> hist[p].run_id, kind |-> "hash",
                                           key |-> s3_hash_key])
              /\ last_publish' = hist[p].uploaded
         ELSE /\ store' = store
              /\ loc' = [loc EXCEPT ![p].pc = "except"]
              /\ hist' = CalledRaised(p, "put_hash")
              /\ writes' = writes
              /\ last_publish' = last_publish
    /\ UNCHANGED <<fs, runs, last_run>>

\* main's last step as it would be if cleanup_local_file let the OSError of
\* os.remove through to main's except handler
main_cleanup_raises(p) ==
    /\ loc[p].pc = "cleanup"
    /\ \E rm_ok \in BOOLEAN :
         /\ fs' = cleanup_local_file(fs, loc[p].local_file, rm_ok)
         /\ hist' = Cleaned(p, rm_ok)
         /\ loc' = IF loc[p].local_file \in DOMAIN fs /\ ~rm_ok
                   THEN [loc EXCEPT ![p].pc = "failed", ![p].exit_code = 1]
                   ELSE [loc EXCEPT ![p].pc = "done", ![p].exit_code = 0]
    /\ last_run' = Outcome(p)
    /\ UNCHANGED <<store, runs, writes, last_publish>>

\* the last step of the try block: cleanup_local_file(local_file), exit code 0
main_cleanup(p) ==
    /\ loc[p].pc = "cleanup"
    /\ \E rm_ok \in BOOLEAN :
         /\ fs' = cleanup_local_file(fs, loc[p].local_file, rm_ok)
         /\ hist' = Cleaned(p, rm_ok)
    /\ loc' = [loc EXCEPT ![p].pc = "done", ![p].exit_code = 0]
    /\ last_run' = Outcome(p)
    /\ UNCHANGED <<store, runs, writes, last_publish>>

\* except Exception: cleanup if 'local_file' in locals(); sys.exit(1)
main_except(p) ==
    /\ loc[p].pc = "except"
    /\ IF loc[p].local_file # <<>>
       THEN \E rm_ok \in BOOLEAN :
              /\ fs' = cleanup_local_file(fs, loc[p].local_file, rm_ok)
              /\ hist' = Cleaned(p, rm_ok)
       ELSE /\ fs' = fs
            /\ hist' = hist
    /\ loc' = [loc EXCEPT ![p].pc = "failed", ![p].exit_code = 1]
    /\ last_run' = Outcome(p)
    /\ UNCHANGED <<store, runs, writes, last_publish>>

(* ---------------------------- specifications --------------------------- *)
Step(p) ==
    \/ download_gtfs_file(p)
    \/ calculate_file_hash(p)
    \/ get_s3_client(p)
    \/ get_remote_hash(p)
    \/ main_compare(p)
    \/ generate_unique_s3_key_original(p)
    \/ generate_unique_s3_key_timestamp(p)
    \/ generate_unique_s3_key_counter(p)
    \/ upload_to_s3(p)
    \/ save_hash_to_s3(p)
    \/ main_cleanup(p)
    \/ main_except(p)

\* runs one after the other, as the scheduler starts them
Next == \E p \in Procs : (NoOtherRun(p) /\ main_validate(p)) \/ Step(p)

Spec == Init /\ [][Next]_vars

(* ------------- generate_unique_s3_key on any store and key ------------- *)
\* the keys the allocator is asked for: with and without a path, with and
\* without an extension
DesiredKeys ==
    { s3_gtfs_key(LOCAL_GTFS_FILE), LOCAL_GTFS_FILE, s3_gtfs_key(<<"feed">>), <<"feed">>,
      <<"/", "feed">> }

\* the keys a call for original_key can look at
KeyUniverse(original_key) ==
    {original_key} \cup
    { NewKey(original_key, Strftime(now), c) : now \in Clock, c \in 0..MaxCounter }

\* process 1 is at the call of generate_unique_s3_key, on any store content
InitAlloc ==
    /\ \E original_key \in DesiredKeys :
         /\ \E occupied \in SUBSET KeyUniverse(original_key) :
              store = [k \in occupied |-> <<97>>]
         /\ loc = [p \in Procs |->
                     IF p = 1 THEN [NoLocals EXCEPT !.pc = "alloc_original",
                                                    !.original_key = original_key]
                     ELSE NoLocals]
    /\ fs = <<>>
    /\ runs = 1
    /\ hist = [p \in Procs |->
                 IF p = 1 THEN [NoHistory EXCEPT !.run_id = 1, !.store_at_start = store]
                 ELSE NoHistory]
    /\ writes = <<>>
    /\ last_publish = None
    /\ last_run = NoRun

NextAlloc ==
    \E p \in Procs :
        \/ generate_unique_s3_key_original(p)
        \/ generate_unique_s3_key_timestamp(p)
        \/ generate_unique_s3_key_counter(p)

SpecAlloc == InitAlloc /\ [][NextAlloc]_vars

(* ---------------- runs on a bucket that is already in use -------------- *)
\* runs started on a bucket found as it is
MaxStoredRuns == 1

\* what gtfs/hash.txt can hold when the run starts: a digest, a digest with
\* whitespace around it (written by hand or by another tool), bytes that
\* are not UTF-8
StoredHashes ==
    { Encode(<<"a", "b">>), Encode(<<"a", "b", "\n">>), Encode(<<" ", "b", "b">>), <<255>> }

\* the archive keys already taken: none, the plain key, the plain key and
\* the timestamped ones, those and the ones with counter 1
ArchivedKeys(depth) ==
    LET k == s3_gtfs_key(LOCAL_GTFS_FILE)
    IN  (IF depth >= 1 THEN {k} ELSE {}) \cup
        { NewKey(k, Strftime(now), c) : now \in Clock, c \in 0..(depth - 2) }

InitStored ==
    /\ \E h \in StoredHashes, depth \in 0..3 :
         store = [k \in ArchivedKeys(depth) \cup {s3_hash_key} |->
                    IF k = s3_hash_key THEN h ELSE <<98>>]
    /\ fs = <<>>
    /\ loc = [p \in Procs |-> NoLocals]
    /\ runs = 0
    /\ hist = [p \in Procs |-> NoHistory]
    /\ writes = <<>>
    /\ last_publish = None
    /\ last_run = NoRun

NextStored ==
    \E p \in Procs : (NoOtherRun(p) /\ runs < MaxStoredRuns /\ main_validate(p)) \/ Step(p)

SpecStored == InitStored /\ [][NextStored]_vars

\* the same runs, where a process that can take its next step takes it: every
\* call to the server, the store or the file system returns or raises
SpecStoredFair == SpecStored /\ WF_vars(\E p \in Procs : Step(p))

(* --------------------------- concurrent runs --------------------------- *)
\* the bucket as earlier runs whose save_hash_to_s3 failed have left it
InitConcurrent ==
    /\ \E depth \in 0..3 : store = [k \in ArchivedKeys(depth) |-> <<98>>]
    /\ fs = <<>>
    /\ loc = [p \in Procs |-> NoLocals]
    /\ runs = 0
    /\ hist = [p \in Procs |-> NoHistory]
    /\ writes = <<>>
    /\ last_publish = None
    /\ last_run = NoRun

\* two processes started independently, each running main() once, their
\* steps interleaved in any order
NextConcurrent == \E p \in Procs : (loc[p].pc = "idle" /\ main_validate(p)) \/ Step(p)

SpecConcurrent == InitConcurrent /\ [][NextConcurrent]_vars

(* ------------------------------ properties ---------------------------- *)
InOps(p, op) == \E i \in DOMAIN hist[p].ops : hist[p].ops[i] = op

\* the fingerprint object of a bucket content: None when absent
HashObject(bucket) == IF s3_hash_key \in DOMAIN bucket THEN Some(bucket[s3_hash_key]) ELSE None

\* run p has read the fingerprint and taken (or been denied) the decision of Step 5
Decided(p) == hist[p].reply \in {"NoSuchKey", "object"} /\ loc[p].pc # "compare"
\* run p took the branch that skips the upload
Skipped(p) == loc[p].pc = "done" /\ hist[p].uploaded = None /\ ~InOps(p, "head")
\* run p went on to generate_unique_s3_key
Proceeded(p) == loc[p].pc = "alloc_original" \/ InOps(p, "head")

\* C1: once an artifact object has been written at a key, no later run
\* writes to that key.
C1_ArtifactNeverOverwritten ==
    \A i, j \in DOMAIN writes :
        (i < j /\ writes[i].kind = "artifact" /\ writes[j].run > writes[i].run)
            => writes[j].key # writes[i].key

\* C2: a run calls the fingerprint write only after its artifact write has
\* succeeded, and a run whose artifact write failed leaves the fingerprint
\* object as it was when the run started.
C2_HashOnlyAfterArtifact ==
    \A p \in Procs :
        /\ InOps(p, "put_hash") => hist[p].uploaded # None
        /\ \A i, j \in DOMAIN hist[p].ops :
               (hist[p].ops[i] = "put_hash" /\ hist[p].ops[j] = "upload") => j < i
        /\ hist[p].fail_step = "upload"
               => /\ HashObject(store) = HashObject(hist[p].store_at_start)
                  /\ ~InOps(p, "put_hash")

\* a run whose upload failed on a bucket that holds a fingerprint
C2_Witness ==
    \E p \in Procs :
        /\ hist[p].fail_step = "upload"
        /\ loc[p].pc = "failed"
        /\ s3_hash_key \in DOMAIN store

\* C3: the fingerprint object, when present, is the digest of the artifact of
\* the most recent completed publish, and that artifact object is in the
\* store under the key it was published at.
C3_HashMatchesLastPublish ==
    s3_hash_key \in DOMAIN store =>
        /\ last_publish # None
        /\ \A u \in last_publish :
               /\ store[s3_hash_key] = Encode(calculate_file_hash_digest(u.data))
               /\ u.key \in DOMAIN store
               /\ store[u.key] = u.data

\* C4: the key generate_unique_s3_key returns is not in the store as it was
\* at the call, and the call leaves the store as it was.
C4_AllocatedKeyIsFree ==
    \A p \in Procs :
        /\ loc[p].pc = "upload" => loc[p].new_key \notin DOMAIN hist[p].store_at_start
        /\ loc[p].pc \in {"alloc_original", "alloc_timestamp", "alloc_counter",
                          "upload", "except"}
               => store = hist[p].store_at_start

\* the allocator returned a key with a counter, the plain and the
\* timestamped key being taken
C4_Witness ==
    \E p \in Procs :
        /\ loc[p].pc = "upload"
        /\ loc[p].counter >= 1
        /\ loc[p].original_key \in DOMAIN store

\* C5: a run that finds the remote fingerprint equal to the local one calls
\* neither the upload nor the fingerprint write, leaves the store as it was
\* and ends with exit code 0.
C5_EqualHashWritesNothing ==
    \A p \in Procs :
        (Decided(p) /\ Some(loc[p].local_hash) = loc[p].remote_hash)
            => /\ loc[p].pc = "done"
               /\ loc[p].exit_code = 0
               /\ store = hist[p].store_at_start
               /\ ~InOps(p, "head") /\ ~InOps(p, "upload") /\ ~InOps(p, "put_hash")

\* a run that skipped on a bucket holding an earlier publish
C5_Witness ==
    \E p \in Procs :
        /\ Decided(p)
        /\ Some(loc[p].local_hash) = loc[p].remote_hash
        /\ loc[p].pc = "done"
        /\ last_publish # None

\* C6: when a run has exited (and os.remove did not fail), the file the run
\* opened is not in the working directory.
C6_NoLocalFileAfterExit ==
    \A p \in Procs :
        (loc[p].pc \in {"done", "failed"} /\ ~hist[p].rm_failed)
            => \A f \in hist[p].opened : f \notin DOMAIN fs

\* C7: two runs never write their artifact to the same key.
C7_ConcurrentRunsDistinctKeys ==
    \A i, j \in DOMAIN writes :
        (i # j /\ writes[i].kind = "artifact" /\ writes[j].kind = "artifact"
              /\ writes[i].run # writes[j].run)
            => writes[i].key # writes[j].key

\* C8: when the fingerprint read finds no object, the run does not fail at
\* the read; it goes on to generate_unique_s3_key, can only fail at a later
\* store call, and when it ends with success it has published.
C8_AbsentHashProceeds ==
    \A p \in Procs :
        hist[p].reply = "NoSuchKey"
            => /\ hist[p].fail_step # "get_hash"
               /\ loc[p].remote_hash = None
               /\ loc[p].pc # "compare" => Proceeded(p)
               /\ loc[p].pc \in {"except", "failed"}
                      => hist[p].fail_step \in {"head", "upload", "put_hash"}
               /\ loc[p].pc = "done" => (hist[p].uploaded # None /\ hist[p].saved)

\* a first run on an empty bucket that published
C8_Witness ==
    \E p \in Procs :
        /\ hist[p].reply = "NoSuchKey"
        /\ loc[p].pc = "done"
        /\ hist[p].uploaded # None

\* the bytes of the fingerprint object are exactly the local fingerprint
RawEqual(p) == HashObject(hist[p].store_at_start) = Some(Encode(loc[p].local_hash))

\* the fingerprint object, decoded and stripped, is the local fingerprint
StrippedEqual(p) ==
    \E raw \in HashObject(hist[p].store_at_start) :
        Decodable(raw) /\ Strip(Decode(raw)) = loc[p].local_hash

\* C9 as stated: a run that has read the fingerprint as text and compared it
\* skips exactly when the stored bytes equal the local fingerprint, and goes
\* on to allocate a key for every other stored value.
C9_SkipIffBytesEqual ==
    \A p \in Procs :
        (Decided(p) /\ hist[p].fail_step # "get_hash")
            => IF RawEqual(p) THEN Skipped(p) ELSE Proceeded(p)

\* C9 as amended: the run skips exactly when the stored value, decoded as
\* UTF-8 and stripped of leading and trailing whitespace, equals the local
\* fingerprint; a stored value that is not UTF-8 fails the run at the read
\* with nothing written; for every other stored value, and for no object,
\* the run goes on to allocate a key.
C9_SkipIffStrippedEqual ==
    \A p \in Procs :
        Decided(p) =>
            IF StrippedEqual(p) THEN Skipped(p)
            ELSE IF \E raw \in HashObject(hist[p].store_at_start) : ~Decodable(raw)
            THEN /\ loc[p].pc \in {"except", "failed"}
                 /\ hist[p].fail_step = "get_hash"
                 /\ store = hist[p].store_at_start
            ELSE Proceeded(p)

\* a run skipped although the stored bytes are not the local fingerprint
C9_Witness ==
    \E p \in Procs : Decided(p) /\ Skipped(p) /\ ~RawEqual(p) /\ StrippedEqual(p)

\* C10: the run that follows a completed publish and fetches the same bytes
\* calls no exists check, upload or fingerprint write, leaves the store as it
\* was, and once it has compared the fingerprints ends through the skip
\* with exit code 0.
C10_SameBytesNotUploadedAgain ==
    \A p \in Procs :
        (hist[p].prev.published /\ hist[p].fetched = Some(hist[p].prev.data))
            => /\ store = hist[p].store_at_start
               /\ ~InOps(p, "head") /\ ~InOps(p, "upload") /\ ~InOps(p, "put_hash")
               /\ loc[p].pc \notin {"alloc_original", "alloc_timestamp", "alloc_counter",
                                    "upload", "save_hash", "cleanup"}
               /\ Decided(p) => (Skipped(p) /\ loc[p].exit_code = 0)

\* the run after a publish fetched the same bytes and skipped
C10_Witness ==
    \E p \in Procs :
        /\ hist[p].prev.published
        /\ hist[p].fetched = Some(hist[p].prev.data)
        /\ Skipped(p)

\* run p has ended
Exited(p) == loc[p].pc \in {"done", "failed"}
\* run p did what a run is for: it skipped, or uploaded and saved the hash
Succeeded(p) == Skipped(p) \/ (hist[p].uploaded # None /\ hist[p].saved)

\* C11: a run that has ended has exit code 0 when it skipped or completed the
\* publish with no step failing, and exit code 1 when the configuration was
\* rejected or a step of the pipeline raised; whether os.remove failed in the
\* cleanup makes no difference.
C11_ExitCode ==
    \A p \in Procs :
        Exited(p) =>
            LET failure == hist[p].config_error # "" \/ hist[p].fail_step # ""
            IN  /\ loc[p].exit_code = (IF failure THEN 1 ELSE 0)
                /\ ~failure <=> (Succeeded(p) /\ loc[p].pc = "done")

\* a publish whose final os.remove failed
C11_Witness ==
    \E p \in Procs :
        /\ loc[p].pc = "done"
        /\ hist[p].rm_failed
        /\ hist[p].saved
        /\ loc[p].exit_code = 0

\* C13: a run whose configuration is rejected (no bucket, a custom endpoint
\* without both access key and secret, or no URL) ends at once with exit
\* code 1: it makes no request to the server, opens no local file, makes no
\* call to the store and leaves the store as it found it.
C13_InvalidConfigFailsFast ==
    \A p \in Procs :
        hist[p].config_error # "" =>
            /\ loc[p].pc = "failed"
            /\ loc[p].exit_code = 1
            /\ hist[p].ops = <<>>
            /\ hist[p].opened = None
            /\ hist[p].uploaded = None /\ ~hist[p].saved
            /\ store = hist[p].store_at_start
            /\ \A i \in 1..Len(writes) : writes[i].run # hist[p].run_id

\* a run rejected for the missing credentials of a custom endpoint, on a
\* bucket an earlier run has published to
C13_Witness ==
    \E p \in Procs :
        /\ hist[p].config_error = "S3_ENDPOINT_URL"
        /\ loc[p].pc = "failed"
        /\ hist[p].prev.published

\* the writes to the store made by run p
WritesOf(p) == { i \in 1..Len(writes) : writes[i].run = hist[p].run_id }

\* C12: once a step of a run has raised (the fetch, the hashing, the client,
\* the read of the hash with an error other than NoSuchKey, an exists check
\* with an error other than 404, the upload, the write of the hash), the run
\* is on its way out: it makes no further call to the server or the store,
\* repeats nothing and leaves the store as it is; and when the step that
\* raised is the read of the hash or an exists check, the run has written
\* nothing to the store at all.
C12_ErrorAborts ==
    /\ [](\A p \in Procs :
            hist[p].fail_step # "" =>
                /\ loc[p].pc \in {"except", "failed"}
                /\ hist[p].fail_step \in {"get_hash", "head"} =>
                     /\ store = hist[p].store_at_start
                     /\ WritesOf(p) = {}
                     /\ hist[p].uploaded = None /\ ~hist[p].saved)
    /\ [][\A p \in Procs :
            (hist[p].fail_step # "" /\ hist'[p].run_id = hist[p].run_id) =>
                /\ hist'[p].ops = hist[p].ops
                /\ hist'[p].fail_step = hist[p].fail_step
                /\ store' = store
                /\ writes' = writes]_vars

\* a run that failed at an exists check with an error other than 404, on a
\* bucket that an earlier run has published to
C12_Witness ==
    \E p \in Procs :
        /\ loc[p].pc = "failed"
        /\ hist[p].fail_step = "head"
        /\ hist[p].reply \in {"NoSuchKey", "object"}
        /\ hist[p].prev.published

\* C14: when the key asked for is not in the store, generate_unique_s3_key
\* returns that very key, after the one exists check, whatever else the
\* store holds; it reads no clock and builds no other key.
C14_FreeKeyUnchanged ==
    \A p \in Procs :
        (loc[p].original_key # <<>> /\ loc[p].original_key \notin DOMAIN hist[p].store_at_start)
            => /\ loc[p].pc \in {"alloc_original", "upload", "except"}
               /\ loc[p].pc = "upload" =>
                    /\ loc[p].new_key = loc[p].original_key
                    /\ loc[p].timestamp = <<>>
                    /\ hist[p].ops = <<"head">>

\* the key asked for is free while timestamped keys made from it are taken,
\* and the allocator has returned
C14_Witness ==
    \E p \in Procs :
        /\ loc[p].pc = "upload"
        /\ loc[p].new_key = loc[p].original_key
        /\ loc[p].original_key \notin DOMAIN store
        /\ \E now \in Clock : NewKey(loc[p].original_key, Strftime(now), 0) \in DOMAIN store

\* the run before run p uploaded an artifact and ended without saving the
\* hash, and run p has fetched the same bytes
AfterInterrupted(p) ==
    /\ hist[p].prev.uploaded # None
    /\ ~hist[p].prev.published
    /\ \E u \in hist[p].prev.uploaded : hist[p].fetched = Some(u.data)

\* C15: the run that follows a run which uploaded the artifact and ended before
\* saving the hash, and that fetches the same bytes, does not skip; when it
\* completes, it has uploaded those bytes under a key other than the one the
\* interrupted run wrote, the object the interrupted run wrote is still in
\* the store with its bytes, and the hash object holds the digest.
C15_RedundantUploadOnly ==
    \A p \in Procs :
        AfterInterrupted(p) =>
            /\ ~Skipped(p)
            /\ loc[p].pc = "done" =>
                 \E u \in hist[p].prev.uploaded, v \in hist[p].uploaded :
                     /\ v.data = u.data
                     /\ v.key # u.key
                     /\ u.key \in DOMAIN store
                     /\ store[u.key] = u.data
                     /\ v.key \in DOMAIN store
                     /\ store[v.key] = v.data
                     /\ s3_hash_key \in DOMAIN store
                     /\ store[s3_hash_key] = Encode(calculate_file_hash_digest(u.data))

\* the key the format "pathPrefix/stem_<timestamp>[_<counter>].extension"
\* describes for the desired key: the path up to and including the last
\* separator is kept, and the suffix goes before the last "." of the file
\* name, or at its end when it has none
ExpectedKey(desired, timestamp, counter) ==
    LET slashes  == { i \in 1..Len(desired) : desired[i] = "/" }
        cut      == IF slashes = {} THEN 0 ELSE CHOOSE i \in slashes : \A j \in slashes : j <= i
        path     == SubSeq(desired, 1, cut)
        filename == SubSeq(desired, cut + 1, Len(desired))
        dots     == { i \in 1..Len(filename) : filename[i] = "." }
        dot      == IF dots = {} THEN Len(filename) + 1
                    ELSE CHOOSE i \in dots : \A j \in dots : j <= i
        suffix   == <<"_">> \o timestamp \o
                    (IF counter > 0 THEN <<"_", ToString(counter)>> ELSE <<>>)
    IN  path \o SubSeq(filename, 1, dot - 1) \o suffix \o SubSeq(filename, dot, Len(filename))

C17_RunTerminates ==
    /\ [](\A p \in Procs : loc[p].counter <= Cardinality(DOMAIN store) + 1)
    /\ \A p \in Procs :
         (loc[p].pc \notin Terminal) ~> (loc[p].pc \in {"done", "failed"})

\* a run that went through the counter loop, past an occupied key with a
\* counter, and completed
C17_Witness ==
    \E p \in Procs :
        /\ loc[p].pc = "done"
        /\ loc[p].counter >= 2
        /\ hist[p].saved

\* how many times run p has called op
Count(p, op) == Cardinality({ i \in DOMAIN hist[p].ops : hist[p].ops[i] = op })
\* the place of a call in the pipeline
Rank(op) ==
    CASE op = "fetch" -> 1 [] op = "get_hash" -> 2 [] op = "head" -> 3
      [] op = "upload" -> 4 [] op = "put_hash" -> 5
\* the writes of run p of one kind
WritesOfKind(p, kind) == { i \in WritesOf(p) : writes[i].kind = kind }

\* C18: a run calls the fetch, the read of the hash, the upload and the write
\* of the hash at most once each, in this order (with the exists checks
\* between the read and the upload), writes at most one artifact and then at
\* most one hash object, and calls the upload and the write of the hash only
\* after a read that returned no object or a hash other than the local one.
C18_OnePassInOrder ==
    \A p \in Procs :
        /\ \A op \in {"fetch", "get_hash", "upload", "put_hash"} : Count(p, op) <= 1
        /\ \A i, j \in DOMAIN hist[p].ops :
             i < j => Rank(hist[p].ops[i]) <= Rank(hist[p].ops[j])
        /\ Cardinality(WritesOfKind(p, "artifact")) <= 1
        /\ Cardinality(WritesOfKind(p, "hash")) <= 1
        /\ \A i \in WritesOfKind(p, "artifact"), j \in WritesOfKind(p, "hash") : i < j
        /\ (InOps(p, "upload") \/ InOps(p, "put_hash") \/ WritesOf(p) # {}) =>
             /\ InOps(p, "fetch") /\ InOps(p, "get_hash")
             /\ hist[p].reply \in {"NoSuchKey", "object"}
             /\ hist[p].reply = "NoSuchKey" <=> loc[p].remote_hash = None
             /\ loc[p].remote_hash # Some(loc[p].local_hash)

\* a run that read a hash other than its own, made more than one exists
\* check, uploaded and wrote the hash
C18_Witness ==
    \E p \in Procs :
        /\ loc[p].pc = "done"
        /\ hist[p].reply = "object"
        /\ Count(p, "head") >= 2
        /\ Cardinality(WritesOfKind(p, "artifact")) = 1
        /\ Cardinality(WritesOfKind(p, "hash")) = 1

\* C19: no run uploads the artifact to the key of the hash object: the
\* write of the hash never replaces an artifact, and the hash object, when
\* there is one, holds the hex digest of a payload.
C19_ArtifactKeyIsNotHashKey ==
    /\ \A i \in DOMAIN writes : writes[i].kind = "artifact" => writes[i].key # s3_hash_key
    /\ \A p \in Procs : \A u \in hist[p].uploaded : u.key # s3_hash_key
    /\ \A raw \in HashObject(store) :
         \E b \in Payloads : raw = Encode(calculate_file_hash_digest(b))

====
